---- MODULE Spec2Model ----
(***************************************************************************)
(* Model of os/kernel/task/task_delete.c (task_delete) and                 *)
(* lib/libc/uio/lib_writev.c (writev).                                     *)
(*                                                                         *)
(* task_delete runs on a single CPU (the code reads g_readytorun.head      *)
(* directly): one task executes at a time and any live task may execute    *)
(* the next step, unless another task holds the scheduler lock             *)
(* (lockcount > 0), which suppresses context switches.                     *)
(***************************************************************************)
EXTENDS Integers, Naturals, Sequences, FiniteSets, TLC

\* ---------------------------------------------------------------- bounds
NumTasks == 3      \* tasks 1..NumTasks exist at start
MaxDepth == 1      \* largest cpcount a task reaches
MaxCalls == 2      \* task_delete calls started in one behaviour
MaxEnv   == 2      \* changes tasks make to their own cancellation state
MaxHeld  == 1      \* sched_lock() calls a task has open when it calls task_delete

\* ------------------------------------------------------------- constants
OK           == 0
ERROR        == -1
ESRCH        == 3
EINVAL       == 22
NULL         == -1         \* a tcb pointer is modelled by the pid it refers to

TCB_FLAG_NONCANCELABLE   == "NONCANCELABLE"
TCB_FLAG_CANCEL_PENDING  == "CANCEL_PENDING"
TCB_FLAG_CANCEL_DEFERRED == "CANCEL_DEFERRED"
TcbFlags == {TCB_FLAG_NONCANCELABLE, TCB_FLAG_CANCEL_PENDING, TCB_FLAG_CANCEL_DEFERRED}
TCB_FLAG_TTYPE_PTHREAD   == "PTHREAD"
TTypes == {"TASK", "KERNEL", TCB_FLAG_TTYPE_PTHREAD}

CONFIG_CANCELLATION_POINTS == TRUE

Tasks   == 1..NumTasks
PidArgs == 0..(NumTasks + 1)      \* 0: the caller; NumTasks + 1 names no task

VARIABLES
  registry,   \* pids sched_gettcb() resolves (live tasks)
  tcb,        \* tcb[p].flags, tcb[p].cpcount, tcb[p].lockcount, tcb[p].ttype
  pc,         \* position of each task inside task_delete
  pid,        \* task_delete's argument (after resolution of 0)
  dtcb,       \* task_delete's local dtcb
  rtcb,       \* task_delete's local rtcb
  ret,        \* task_delete's local ret
  errno,      \* errno as set by the call in progress
  result,     \* value the call returned
  call,       \* per-call observations (collaborator calls, lock use)
  ncalls,     \* task_delete calls started
  nenv        \* own-state changes made

dvars == <<registry, tcb, pc, pid, dtcb, rtcb, ret, errno, result, call, ncalls, nenv>>

\* State of one writev call
VARIABLES
  iov,        \* iov[k].iov_len, k = 1..iovcnt (the C index is k - 1)
  iovcnt,
  seekable,   \* lseek() works on fildes
  filepos,    \* file position of fildes
  wpc,        \* position inside writev
  i,          \* loop index (C index)
  buffer,     \* offset of buffer in the area iov[i]
  remaining,
  ntotal,
  nwritten,
  pos,        \* the position saved at entry
  werrno,     \* errno of the caller of writev
  save,       \* writev's local save: errno of the write() that failed
  wret,       \* value writev returned
  wlog,       \* successful write() calls: <<C index, offset, count>>
  nwrites,    \* write() calls made
  wfailed,    \* a write() call failed
  overflowed  \* ntotal += nwritten left the range of ssize_t

wvars == <<iov, iovcnt, seekable, filepos, wpc, i, buffer, remaining, ntotal,
           nwritten, pos, werrno, save, wret, wlog, nwrites, wfailed, overflowed>>

NoSnap == [taken |-> FALSE, alive |-> FALSE, flags |-> {}, cpcount |-> 0]

\* what notify_cancellation() found when it was called
NoSeen == [live |-> FALSE, locked |-> FALSE, pending |-> FALSE, cpcount |-> 0]

NoCall == [notify |-> 0, term |-> 0, exit |-> 0, nonblocking |-> "none",
           locks |-> 0, unlocks |-> 0, lock0 |-> 0, arg |-> 0,
           path |-> "none", snap |-> NoSnap, seen |-> NoSeen]

TType(p) == IF p % 2 = 1 THEN "TASK" ELSE "KERNEL"

\* A new task is cancelable; with cancellation points built in, its
\* cancellation type is deferred.
InitialFlags == IF CONFIG_CANCELLATION_POINTS THEN {TCB_FLAG_CANCEL_DEFERRED} ELSE {}

DeleteInit ==
  /\ registry = Tasks
  /\ tcb = [p \in Tasks |-> [flags |-> InitialFlags, cpcount |-> 0, lockcount |-> 0,
                             ttype |-> TType(p)]]
  /\ pc = [t \in Tasks |-> "idle"]
  /\ pid = [t \in Tasks |-> 0]
  /\ dtcb = [t \in Tasks |-> NULL]
  /\ rtcb = [t \in Tasks |-> NULL]
  /\ ret = [t \in Tasks |-> 0]
  /\ errno = [t \in Tasks |-> 0]
  /\ result = [t \in Tasks |-> OK]
  /\ call = [t \in Tasks |-> NoCall]
  /\ ncalls = 0
  /\ nenv = 0

\* ------------------------------------------------------------ scheduler
Panicked == \E u \in Tasks : pc[u] = "panic"

\* g_readytorun.head: the task the CPU executes.  A task that holds the
\* scheduler lock cannot be switched out, so any live task may be the head
\* unless another task holds the lock.
IsReadyToRunHead(t) ==
  t \in registry /\ \A u \in registry : u = t \/ tcb[u].lockcount = 0

\* t executes the next step
Runs(t) == IsReadyToRunHead(t) /\ ~Panicked

\* sched_gettcb(): the tcb of a pid, NULL when the pid names no task
sched_gettcb(p) == IF p \in registry THEN p ELSE NULL

\* sched_lock() / sched_unlock() on the tcb of the task that executes
sched_lock(T, t) == [T EXCEPT ![t].lockcount = @ + 1]
sched_unlock(T, t) == [T EXCEPT ![t].lockcount = @ - 1]

\* What a read through a tcb pointer yields.  A pointer to a task that was
\* torn down refers to freed memory: the read yields any value.
ReadFlags(d) == IF d \in registry THEN {tcb[d].flags} ELSE SUBSET TcbFlags
ReadCpcount(d) == IF d \in registry THEN {tcb[d].cpcount} ELSE 0..MaxDepth
ReadTType(d) == IF d \in registry THEN {tcb[d].ttype} ELSE TTypes

\* dtcb->flags = f (a write to freed memory changes no live tcb)
WriteFlags(T, d, f) == IF d \in registry THEN [T EXCEPT ![d].flags = f] ELSE T

\* pid 0 left unresolved
ResolvePid_Unresolved(p, r) == p

\* ---------------------------------------------------------- task_delete
\* Lines 135-137: a pid of zero signifies the calling task.
ResolvePid(p, r) == IF p = 0 THEN r ELSE p

\* set_errno(EINVAL)
NotFoundErrno_Einval == EINVAL

\* Line 147: the errno of an unknown pid.
NotFoundErrno == ESRCH

\* Line 153: the task types the interface accepts.
TTypeAccepted(ty) == ty # TCB_FLAG_TTYPE_PTHREAD

\* The deferred type tested before the non-cancelable state
IsNonCancelable_TypeFirst(f) ==
  TCB_FLAG_NONCANCELABLE \in f /\ TCB_FLAG_CANCEL_DEFERRED \notin f

\* Line 161: (dtcb->flags & TCB_FLAG_NONCANCELABLE) != 0
IsNonCancelable(f) == TCB_FLAG_NONCANCELABLE \in f

\* dtcb->flags ^= TCB_FLAG_CANCEL_PENDING
MarkPending_Toggle(f) ==
  IF TCB_FLAG_CANCEL_PENDING \in f THEN f \ {TCB_FLAG_CANCEL_PENDING}
                                   ELSE f \cup {TCB_FLAG_CANCEL_PENDING}

\* Lines 175 and 191: dtcb->flags |= TCB_FLAG_CANCEL_PENDING
MarkPending(f) == f \cup {TCB_FLAG_CANCEL_PENDING}

\* the pending bit tested in place of the deferred bit
IsDeferred_WrongBit(f) == CONFIG_CANCELLATION_POINTS /\ TCB_FLAG_CANCEL_PENDING \in f

\* Lines 180-183: (dtcb->flags & TCB_FLAG_CANCEL_DEFERRED) != 0, when
\* cancellation points are built in.
IsDeferred(f) == CONFIG_CANCELLATION_POINTS /\ TCB_FLAG_CANCEL_DEFERRED \in f

\* dtcb->cpcount >= 0
AtCancellationPoint_OffByOne(c) == c >= 0

\* Line 193: dtcb->cpcount > 0
AtCancellationPoint(c) == c > 0

\* Line 205: pid == rtcb->pid
IsCallingTask(p, r) == p = r

\* task_terminate(pid, true)
TerminateNonblocking_True == "true"

\* Line 217: the second argument of task_terminate()
TerminateNonblocking == "false"

\* set_errno(ret)
TerminateErrno_NotNegated(r) == r

\* Line 219: set_errno(-ret)
TerminateErrno(r) == -r

\* Lines 218-223: the value returned after task_terminate()
TerminateResult(r) == IF r < 0 THEN ERROR ELSE OK

\* sched_lock() left out
LockForDecision_None(T, t) == T

\* sched_lock() called twice
LockForDecision_Twice(T, t) == sched_lock(sched_lock(T, t), t)

\* Line 160: sched_lock() before the flags are tested
LockForDecision(T, t) == sched_lock(T, t)

\* the lock kept
ReleaseLock_Missing(T, t) == T

\* Lines 176, 197 and 204: sched_unlock() at the end of the decision
ReleaseLock(T, t) == sched_unlock(T, t)

\* notify_cancellation() called before line 191
NotifiedState_BeforeMark(T, marked) == T

\* Lines 191-194: notify_cancellation() runs after the pending bit is set
NotifiedState(T, marked) == marked

\* What notify_cancellation(d), called by t, finds in the tcbs T
Seen(T, t, d) ==
  [live |-> d \in registry,
   locked |-> T[t].lockcount > 0,
   pending |-> d \in registry /\ TCB_FLAG_CANCEL_PENDING \in T[d].flags,
   cpcount |-> IF d \in registry THEN T[d].cpcount ELSE 0]

\* Lines 134-149: resolve pid 0, look the task up, fail with ESRCH.
TaskDeleteEntry(t, p) ==
  /\ pc[t] = "idle"
  /\ Runs(t)
  /\ ncalls < MaxCalls
  /\ ncalls' = ncalls + 1
  /\ LET r == t      \* g_readytorun.head while t executes
         q == ResolvePid(p, r)
         d == sched_gettcb(q)
         c0 == [NoCall EXCEPT !.lock0 = tcb[t].lockcount, !.arg = p]
     IN /\ rtcb' = [rtcb EXCEPT ![t] = r]
        /\ pid' = [pid EXCEPT ![t] = q]
        /\ dtcb' = [dtcb EXCEPT ![t] = d]
        /\ IF d = NULL
           THEN /\ errno' = [errno EXCEPT ![t] = NotFoundErrno]
                /\ result' = [result EXCEPT ![t] = ERROR]
                /\ pc' = [pc EXCEPT ![t] = "done"]
                /\ call' = [call EXCEPT ![t] = [c0 EXCEPT !.path = "notfound"]]
           ELSE /\ pc' = [pc EXCEPT ![t] = "assert"]
                /\ call' = [call EXCEPT ![t] = c0]
                /\ UNCHANGED <<errno, result>>
  /\ UNCHANGED <<registry, tcb, ret, nenv>>
  /\ UNCHANGED wvars

\* Line 153: DEBUGASSERT on the task type of dtcb.
TaskDeleteAssert(t) ==
  /\ pc[t] = "assert"
  /\ Runs(t)
  /\ \E ty \in ReadTType(dtcb[t]) :
       pc' = [pc EXCEPT ![t] = IF TTypeAccepted(ty) THEN "lock" ELSE "panic"]
  /\ UNCHANGED <<registry, tcb, pid, dtcb, rtcb, ret, errno, result, call, ncalls, nenv>>
  /\ UNCHANGED wvars

\* Line 160: sched_lock().
TaskDeleteLock(t) ==
  /\ pc[t] = "lock"
  /\ Runs(t)
  /\ tcb' = LockForDecision(tcb, t)
  /\ pc' = [pc EXCEPT ![t] = "noncancelable"]
  /\ call' = [call EXCEPT ![t].locks = @ + 1,
                          ![t].snap = IF dtcb[t] \in registry
                                      THEN [taken |-> TRUE, alive |-> TRUE,
                                            flags |-> tcb[dtcb[t]].flags,
                                            cpcount |-> tcb[dtcb[t]].cpcount]
                                      ELSE [NoSnap EXCEPT !.taken = TRUE]]
  /\ UNCHANGED <<registry, pid, dtcb, rtcb, ret, errno, result, ncalls, nenv>>
  /\ UNCHANGED wvars

\* Lines 161-178: the non-cancelable test and its branch.
TaskDeleteNonCancelable(t) ==
  /\ pc[t] = "noncancelable"
  /\ Runs(t)
  /\ \E f \in ReadFlags(dtcb[t]) :
       IF IsNonCancelable(f)
       THEN /\ tcb' = ReleaseLock(WriteFlags(tcb, dtcb[t], MarkPending(f)), t)
            /\ result' = [result EXCEPT ![t] = OK]
            /\ pc' = [pc EXCEPT ![t] = "done"]
            /\ call' = [call EXCEPT ![t].unlocks = @ + 1, ![t].path = "disabled"]
       ELSE /\ pc' = [pc EXCEPT ![t] = "deferred"]
            /\ UNCHANGED <<tcb, result, call>>
  /\ UNCHANGED <<registry, pid, dtcb, rtcb, ret, errno, ncalls, nenv>>
  /\ UNCHANGED wvars

\* Lines 180-200: the deferred-cancellation test and its branch;
\* notify_cancellation(dtcb) is counted in call[t].notify.
TaskDeleteDeferred(t) ==
  /\ pc[t] = "deferred"
  /\ Runs(t)
  /\ \E f \in ReadFlags(dtcb[t]), c \in ReadCpcount(dtcb[t]) :
       IF IsDeferred(f)
       THEN LET marked == WriteFlags(tcb, dtcb[t], MarkPending(f))
            IN /\ tcb' = ReleaseLock(marked, t)
               /\ result' = [result EXCEPT ![t] = OK]
               /\ pc' = [pc EXCEPT ![t] = "done"]
               /\ call' = [call EXCEPT
                    ![t].unlocks = @ + 1,
                    ![t].notify = IF AtCancellationPoint(c) THEN @ + 1 ELSE @,
                    ![t].seen = IF AtCancellationPoint(c)
                                THEN Seen(NotifiedState(tcb, marked), t, dtcb[t])
                                ELSE @,
                    ![t].path = "deferred"]
       ELSE /\ pc' = [pc EXCEPT ![t] = "unlock"]
            /\ UNCHANGED <<tcb, result, call>>
  /\ UNCHANGED <<registry, pid, dtcb, rtcb, ret, errno, ncalls, nenv>>
  /\ UNCHANGED wvars

\* Line 204: sched_unlock() on the asynchronous path.
TaskDeleteUnlock(t) ==
  /\ pc[t] = "unlock"
  /\ Runs(t)
  /\ tcb' = ReleaseLock(tcb, t)
  /\ pc' = [pc EXCEPT ![t] = "dispatch"]
  /\ call' = [call EXCEPT ![t].unlocks = @ + 1]
  /\ UNCHANGED <<registry, pid, dtcb, rtcb, ret, errno, result, ncalls, nenv>>
  /\ UNCHANGED wvars

\* Failure codes task_terminate() reports
TermErrCodes == {ESRCH, EINVAL}

\* Outcomes of task_terminate(p, nonblocking): 0 on success, a negated errno
\* on failure; a pid that names no task fails with ESRCH.
task_terminate(p) ==
  IF p \in registry THEN {OK} \cup {-c : c \in TermErrCodes} ELSE {-ESRCH}

\* The memory of a torn-down task is released: its tcb and whatever call it
\* was in are gone.
FreedTcb(p) == [flags |-> {}, cpcount |-> 0, lockcount |-> 0, ttype |-> TType(p)]
Release(F, k, v) == IF k \in Tasks THEN [F EXCEPT ![k] = v] ELSE F

\* Lines 205-223: self-exit, or task_terminate() and the return value.
TaskDeleteDispatch(t) ==
  /\ pc[t] = "dispatch"
  /\ Runs(t)
  /\ IF IsCallingTask(pid[t], rtcb[t])
     THEN \* exit(EXIT_SUCCESS): the caller is gone
          /\ registry' = registry \ {t}
          /\ tcb' = Release(tcb, t, FreedTcb(t))
          /\ pc' = [pc EXCEPT ![t] = "exited"]
          /\ call' = [call EXCEPT ![t].exit = @ + 1, ![t].path = "exit"]
          /\ UNCHANGED <<pid, dtcb, rtcb, ret, errno, result>>
     ELSE \E r \in task_terminate(pid[t]) :
          LET k == IF r < 0 THEN NULL ELSE pid[t]   \* the task torn down
          IN /\ registry' = registry \ {k}
             /\ tcb' = Release(tcb, k, FreedTcb(k))
             /\ pc' = Release([pc EXCEPT ![t] = "done"], k, "killed")
             /\ ret' = Release([ret EXCEPT ![t] = r], k, 0)
             /\ result' = Release([result EXCEPT ![t] = TerminateResult(r)], k, OK)
             /\ errno' = Release(IF r < 0 THEN [errno EXCEPT ![t] = TerminateErrno(r)]
                                          ELSE errno, k, 0)
             /\ call' = Release([call EXCEPT ![t].term = @ + 1,
                                             ![t].nonblocking = TerminateNonblocking,
                                             ![t].path = IF r < 0 THEN "termfail"
                                                                  ELSE "terminated"],
                                k, NoCall)
             /\ pid' = Release(pid, k, 0)
             /\ dtcb' = Release(dtcb, k, NULL)
             /\ rtcb' = Release(rtcb, k, NULL)
  /\ UNCHANGED <<ncalls, nenv>>
  /\ UNCHANGED wvars

\* The caller takes the returned value and carries on.
TaskDeleteReturn(t) ==
  /\ pc[t] = "done"
  /\ Runs(t)
  /\ pc' = [pc EXCEPT ![t] = "idle"]
  /\ pid' = [pid EXCEPT ![t] = 0]
  /\ dtcb' = [dtcb EXCEPT ![t] = NULL]
  /\ rtcb' = [rtcb EXCEPT ![t] = NULL]
  /\ ret' = [ret EXCEPT ![t] = 0]
  /\ errno' = [errno EXCEPT ![t] = 0]
  /\ result' = [result EXCEPT ![t] = OK]
  /\ call' = [call EXCEPT ![t] = NoCall]
  /\ UNCHANGED <<registry, tcb, ncalls, nenv>>
  /\ UNCHANGED wvars

\* ------------------------------------------ a task's own cancellation state
\* A task changes its own state outside task_delete.
Own(t) == pc[t] = "idle" /\ nenv < MaxEnv /\ Runs(t)

OwnUnchanged == UNCHANGED <<registry, pc, pid, dtcb, rtcb, ret, errno, result, call, ncalls, wvars>>

\* task_setcancelstate(): enable or disable cancelability
SetCancelState(t) ==
  /\ Own(t)
  /\ tcb' = [tcb EXCEPT ![t].flags =
               IF TCB_FLAG_NONCANCELABLE \in @ THEN @ \ {TCB_FLAG_NONCANCELABLE}
                                               ELSE @ \cup {TCB_FLAG_NONCANCELABLE}]
  /\ nenv' = nenv + 1
  /\ OwnUnchanged

\* task_setcanceltype(): deferred or asynchronous
SetCancelType(t) ==
  /\ Own(t)
  /\ tcb' = [tcb EXCEPT ![t].flags =
               IF TCB_FLAG_CANCEL_DEFERRED \in @ THEN @ \ {TCB_FLAG_CANCEL_DEFERRED}
                                                 ELSE @ \cup {TCB_FLAG_CANCEL_DEFERRED}]
  /\ nenv' = nenv + 1
  /\ OwnUnchanged

\* enter_cancellation_point()
EnterCancellationPoint(t) ==
  /\ Own(t)
  /\ tcb[t].cpcount < MaxDepth
  /\ tcb' = [tcb EXCEPT ![t].cpcount = @ + 1]
  /\ nenv' = nenv + 1
  /\ OwnUnchanged

\* leave_cancellation_point()
LeaveCancellationPoint(t) ==
  /\ Own(t)
  /\ tcb[t].cpcount > 0
  /\ tcb' = [tcb EXCEPT ![t].cpcount = @ - 1]
  /\ nenv' = nenv + 1
  /\ OwnUnchanged

\* The task's own test-cancel logic consumes a pending cancellation.
ClearPending(t) ==
  /\ Own(t)
  /\ TCB_FLAG_CANCEL_PENDING \in tcb[t].flags
  /\ tcb' = [tcb EXCEPT ![t].flags = @ \ {TCB_FLAG_CANCEL_PENDING}]
  /\ nenv' = nenv + 1
  /\ OwnUnchanged

\* The task calls sched_lock() in its own code, before it calls task_delete.
SchedLock(t) ==
  /\ Own(t)
  /\ tcb[t].lockcount < MaxHeld
  /\ tcb' = sched_lock(tcb, t)
  /\ nenv' = nenv + 1
  /\ OwnUnchanged

\* The task calls sched_unlock() for a sched_lock() of its own.
SchedUnlock(t) ==
  /\ pc[t] = "idle"
  /\ tcb[t].lockcount > 0
  /\ Runs(t)
  /\ tcb' = sched_unlock(tcb, t)
  /\ UNCHANGED nenv
  /\ OwnUnchanged

DeleteNext ==
  \/ \E t \in Tasks, p \in PidArgs : TaskDeleteEntry(t, p)
  \/ \E t \in Tasks : TaskDeleteAssert(t)
  \/ \E t \in Tasks : TaskDeleteLock(t)
  \/ \E t \in Tasks : TaskDeleteNonCancelable(t)
  \/ \E t \in Tasks : TaskDeleteDeferred(t)
  \/ \E t \in Tasks : TaskDeleteUnlock(t)
  \/ \E t \in Tasks : TaskDeleteDispatch(t)
  \/ \E t \in Tasks : TaskDeleteReturn(t)
  \/ \E t \in Tasks : SetCancelState(t)
  \/ \E t \in Tasks : SetCancelType(t)
  \/ \E t \in Tasks : EnterCancellationPoint(t)
  \/ \E t \in Tasks : LeaveCancellationPoint(t)
  \/ \E t \in Tasks : ClearPending(t)
  \/ \E t \in Tasks : SchedLock(t)
  \/ \E t \in Tasks : SchedUnlock(t)

\* ================================================================ writev
MaxIov    == 3      \* longest iovec array
MaxWrites == 5      \* write() calls made in one behaviour

\* ssize_t is int16_t when CONFIG_SMALL_MEMORY is set (int32_t otherwise; the
\* model differs in this number only)
SSIZE_MAX == 32767
SSIZE_MIN == -SSIZE_MAX - 1
ESPIPE    == 29
EIO       == 5

IovLens == {0, 1, 2, SSIZE_MAX}     \* iov_len values of the inputs

RECURSIVE SeqsUpTo(_, _)
SeqsUpTo(S, n) == IF n = 0 THEN {<<>>}
                  ELSE SeqsUpTo(S, n - 1) \cup [1..n -> S]

WritevIdle ==
  /\ iov = <<>> /\ iovcnt = 0 /\ seekable = TRUE /\ filepos = 0
  /\ wpc = "off" /\ i = 0 /\ buffer = 0 /\ remaining = 0 /\ ntotal = 0
  /\ nwritten = 0 /\ pos = 0 /\ werrno = 0 /\ save = 0 /\ wret = 0 /\ wlog = <<>>
  /\ nwrites = 0 /\ wfailed = FALSE /\ overflowed = FALSE

WritevInit ==
  /\ \E lens \in SeqsUpTo(IovLens, MaxIov) :
       /\ iov = [k \in 1..Len(lens) |-> [iov_len |-> lens[k]]]
       /\ iovcnt = Len(lens)
  /\ seekable \in BOOLEAN
  /\ filepos \in {0, 7}
  /\ wpc = "start" /\ i = 0 /\ buffer = 0 /\ remaining = 0 /\ ntotal = 0
  /\ nwritten = 0 /\ pos = 0 /\ werrno = 0 /\ save = 0 /\ wret = 0 /\ wlog = <<>>
  /\ nwrites = 0 /\ wfailed = FALSE /\ overflowed = FALSE

\* lseek(fildes, 0, SEEK_CUR): the position, or -1 on a file that cannot seek
lseek_cur == IF seekable THEN filepos ELSE -1

\* Outcomes of write(fildes, buffer, n): -1, or a count of bytes taken
WriteErrnos == {EIO, EINVAL}
WriteCounts(n) == {c \in {0, 1, n} : c <= SSIZE_MAX}
write(n) == {-1} \cup WriteCounts(n)

\* errno after a successful lseek(): POSIX leaves it unspecified
ErrnoAfterLseek(e) == {e, ESPIPE}

\* ntotal += nwritten in ssize_t; out of range the behaviour is undefined
AddSsize(a, b) ==
  IF a + b <= SSIZE_MAX THEN {a + b}
  ELSE {a + b - 2 * (SSIZE_MAX + 1), SSIZE_MIN, -1, 0, SSIZE_MAX}

\* errno left as the position-restoring lseek() set it
RestoredErrno_Clobbered(saved, clobbered) == clobbered

\* Lines 137-146: save errno, restore the position, restore errno
RestoredErrno(saved, clobbered) == saved

\* Lines 111-114: read the position; fail if it cannot be read.
WritevEntry ==
  /\ wpc = "start"
  /\ pos' = lseek_cur
  /\ IF lseek_cur = -1
     THEN /\ wpc' = "done"
          /\ wret' = ERROR
          /\ werrno' = ESPIPE
     ELSE /\ wpc' = "loop"
          /\ UNCHANGED <<wret, werrno>>
  /\ i' = 0
  /\ ntotal' = 0
  /\ UNCHANGED <<iov, iovcnt, seekable, filepos, buffer, remaining, nwritten,
                 save, wlog, nwrites, wfailed, overflowed>>
  /\ UNCHANGED dvars

\* Lines 118-123: the next entry; zero-length entries are skipped.
WritevNextEntry ==
  /\ wpc = "loop"
  /\ i < iovcnt
  /\ IF iov[i + 1].iov_len > 0
     THEN /\ buffer' = 0
          /\ remaining' = iov[i + 1].iov_len
          /\ wpc' = "write"
          /\ UNCHANGED i
     ELSE /\ i' = i + 1
          /\ UNCHANGED <<buffer, remaining, wpc>>
  /\ UNCHANGED <<iov, iovcnt, seekable, filepos, ntotal, nwritten, pos, werrno,
                 save, wret, wlog, nwrites, wfailed, overflowed>>
  /\ UNCHANGED dvars

\* Lines 127-156: one write() call and what follows it.
WritevWrite ==
  /\ wpc = "write"
  /\ nwrites < MaxWrites
  /\ nwrites' = nwrites + 1
  /\ \E n \in write(remaining) :
       /\ nwritten' = n
       /\ IF n < 0
          THEN \E e \in WriteErrnos : \E c \in ErrnoAfterLseek(e) :
               /\ save' = e
               /\ filepos' = pos
               /\ werrno' = RestoredErrno(e, c)
               /\ wret' = ERROR
               /\ wpc' = "done"
               /\ wfailed' = TRUE
               /\ UNCHANGED <<i, buffer, remaining, ntotal, wlog, overflowed>>
          ELSE \E sum \in AddSsize(ntotal, n) :
               /\ filepos' = filepos + n
               /\ wlog' = Append(wlog, <<i, buffer, n>>)
               /\ buffer' = buffer + n
               /\ remaining' = remaining - n
               /\ ntotal' = sum
               /\ overflowed' = (overflowed \/ ntotal + n > SSIZE_MAX)
               /\ IF remaining - n > 0
                  THEN UNCHANGED <<i, wpc>>
                  ELSE i' = i + 1 /\ wpc' = "loop"
               /\ UNCHANGED <<werrno, save, wret, wfailed>>
  /\ UNCHANGED <<iov, iovcnt, seekable, pos>>
  /\ UNCHANGED dvars

\* Line 160: return ntotal.
WritevReturn ==
  /\ wpc = "loop"
  /\ i >= iovcnt
  /\ wret' = ntotal
  /\ wpc' = "done"
  /\ UNCHANGED <<iov, iovcnt, seekable, filepos, i, buffer, remaining, ntotal,
                 nwritten, pos, werrno, save, wlog, nwrites, wfailed, overflowed>>
  /\ UNCHANGED dvars

WritevNext == WritevEntry \/ WritevNextEntry \/ WritevWrite \/ WritevReturn

\* ========================================================= specifications
vars == <<dvars, wvars>>

\* task_delete called by the tasks of one CPU
Init == DeleteInit /\ WritevIdle
Next == DeleteNext
Spec == Init /\ [][Next]_vars

\* one writev call
InitW == WritevInit /\ DeleteInit
NextW == WritevNext
SpecW == InitW /\ [][NextW]_vars

\* ================================================================= claims
\* What the call of t saw when it took the scheduler lock
Snap(t) == call[t].snap
SawLive(t) == Snap(t).taken /\ Snap(t).alive
SawDisabled(t) == SawLive(t) /\ TCB_FLAG_NONCANCELABLE \in Snap(t).flags
SawDeferred(t) == /\ SawLive(t)
                  /\ TCB_FLAG_NONCANCELABLE \notin Snap(t).flags
                  /\ TCB_FLAG_CANCEL_DEFERRED \in Snap(t).flags
SawAsync(t) == /\ SawLive(t)
               /\ TCB_FLAG_NONCANCELABLE \notin Snap(t).flags
               /\ TCB_FLAG_CANCEL_DEFERRED \notin Snap(t).flags

\* t takes a step (of its task_delete call: InCall)
Steps(t) == pc'[t] # pc[t] /\ pc'[t] # "killed"
InCall(t) == pc[t] \notin {"idle", "done"} /\ Steps(t)
\* the step with which the call of t returns
Returns(t) == pc[t] # "done" /\ pc'[t] = "done"

Pending(T, p) == TCB_FLAG_CANCEL_PENDING \in T[p].flags

\* what C1_Disabled requires of one step of task t
C1_DisabledStep(t) ==
  (SawDisabled(t) /\ pc[t] = "noncancelable") =>
     /\ pc'[t] = "done"
     /\ result'[t] = OK
     /\ dtcb[t] \in registry'
     /\ Pending(tcb', dtcb[t])
     /\ call'[t].term = 0 /\ call'[t].exit = 0 /\ call'[t].notify = 0

\* C1: a target that is Disabled when the lock is taken: the call returns OK
\* at once with cancelPending set, the target stays alive and registered, and
\* task_terminate(), exit() and notify_cancellation() are not called, whatever
\* the cancellation type and cpcount are.
C1_Disabled == [][\A t \in Tasks : C1_DisabledStep(t)]_vars

C1_Witness ==
  \E t \in Tasks :
    /\ pc[t] = "done" /\ call[t].path = "disabled" /\ result[t] = OK
    /\ dtcb[t] # t /\ dtcb[t] \in registry
    /\ SawDisabled(t)
    /\ TCB_FLAG_CANCEL_DEFERRED \in Snap(t).flags
    /\ Snap(t).cpcount > 0
    /\ Pending(tcb, dtcb[t])

\* what C2_Deferred requires of one step of task t
C2_DeferredStep(t) ==
  (SawDeferred(t) /\ InCall(t)) =>
     /\ pc[t] = "noncancelable" => pc'[t] = "deferred" /\ call'[t].notify = 0
     /\ pc[t] = "deferred" =>
          /\ pc'[t] = "done"
          /\ result'[t] = OK
          /\ dtcb[t] \in registry'
          /\ Pending(tcb', dtcb[t])
          /\ call'[t].term = 0 /\ call'[t].exit = 0
          /\ call'[t].notify = IF Snap(t).cpcount > 0 THEN 1 ELSE 0

\* C2: a target that is Enabled and Deferred when the lock is taken: the call
\* returns OK with cancelPending set, the target is not torn down, and
\* notify_cancellation() is called once if cpcount > 0 and not at all if
\* cpcount = 0; this is per call, also when the target is already pending.
C2_Deferred == [][\A t \in Tasks : C2_DeferredStep(t)]_vars

C2_Witness ==
  \E t, u \in Tasks :
    /\ t # u /\ dtcb[t] = dtcb[u]
    /\ pc[t] = "done" /\ pc[u] = "done"
    /\ call[t].path = "deferred" /\ call[u].path = "deferred"
    /\ call[t].notify = 1 /\ call[u].notify = 1
    /\ TCB_FLAG_CANCEL_PENDING \in Snap(u).flags /\ Snap(u).cpcount > 0

\* the call of t is about another task than t
OtherTarget(t) == dtcb[t] # NULL /\ pid[t] # t

\* what C3_AsyncOther requires of one step of task t
C3_AsyncOtherStep(t) ==
  (SawAsync(t) /\ OtherTarget(t) /\ InCall(t)) =>
     /\ pc'[t] \in {"deferred", "unlock", "dispatch", "done"}
     /\ call'[t].exit = 0 /\ call'[t].notify = 0
     /\ dtcb[t] \in registry' => (Pending(tcb', dtcb[t]) <=> Pending(tcb, dtcb[t]))
     /\ pc'[t] # "done" => call'[t].term = 0
     /\ pc'[t] = "done" =>
          /\ pc[t] = "dispatch"
          /\ call'[t].term = 1
          /\ call'[t].nonblocking = "false"
          /\ ret'[t] >= 0 => (result'[t] = OK /\ pid[t] \notin registry')

\* C3: another task that is Enabled and Asynchronous when the lock is taken:
\* the call invokes task_terminate() exactly once, with nonblocking = false,
\* and only as its last step; it calls neither exit() nor
\* notify_cancellation() and does not set cancelPending; when the service
\* succeeds the call returns OK and the target is no longer registered.
C3_AsyncOther == [][\A t \in Tasks : C3_AsyncOtherStep(t)]_vars

C3_Witness ==
  \E t \in Tasks :
    /\ pc[t] = "done" /\ call[t].path = "terminated"
    /\ SawAsync(t) /\ pid[t] # t
    /\ call[t].term = 1 /\ call[t].nonblocking = "false"
    /\ result[t] = OK /\ pid[t] \notin registry

\* what C4_TerminateFails requires of one step of task t
C4_TerminateFailsStep(t) ==
  /\ (pc[t] = "dispatch" /\ Returns(t) /\ ret'[t] < 0) =>
        /\ result'[t] = ERROR
        /\ errno'[t] = 0 - ret'[t]
        /\ errno'[t] \in TermErrCodes
        /\ call'[t].term = 1
        /\ tcb' = tcb /\ registry' = registry
  /\ (pc[t] = "done" /\ call[t].path = "termfail" /\ Steps(t)) =>
        /\ pc'[t] = "idle"
        /\ tcb' = tcb /\ registry' = registry
  /\ (SawAsync(t) /\ OtherTarget(t) /\ InCall(t) /\ pc'[t] # "done") =>
        \A p \in Tasks : tcb'[p].flags = tcb[p].flags

\* C4: when task_terminate() fails with code c on the asynchronous path, the
\* call returns ERROR with errno = c, task_terminate() was called once and is
\* not called again, and the step changes no task's flags.
C4_TerminateFails == [][\A t \in Tasks : C4_TerminateFailsStep(t)]_vars

C4_Witness ==
  \E t \in Tasks :
    /\ pc[t] = "done" /\ call[t].path = "termfail"
    /\ result[t] = ERROR /\ errno[t] = EINVAL /\ ret[t] = -EINVAL
    /\ call[t].term = 1
    /\ pid[t] \in registry /\ SawAsync(t)
    /\ tcb[pid[t]].flags = Snap(t).flags

\* what C5_NotFound requires of one step of task t
C5_NotFoundStep(t) ==
  LET q == IF call'[t].arg = 0 THEN t ELSE call'[t].arg
  IN (pc[t] = "idle" /\ Steps(t) /\ q \notin registry) =>
        /\ pc'[t] = "done"
        /\ result'[t] = ERROR
        /\ errno'[t] = ESRCH
        /\ tcb' = tcb /\ registry' = registry
        /\ call'[t].locks = 0
        /\ call'[t].notify = 0 /\ call'[t].term = 0 /\ call'[t].exit = 0

\* C5: a pid that names no task: the call returns ERROR with errno ESRCH in
\* its first step; no tcb and no registry entry changes, the scheduler lock is
\* not taken, and no collaborator is called.
C5_NotFound == [][\A t \in Tasks : C5_NotFoundStep(t)]_vars

C5_Witness ==
  \E t \in Tasks :
    /\ pc[t] = "done" /\ call[t].path = "notfound"
    /\ result[t] = ERROR /\ errno[t] = ESRCH
    /\ call[t].arg = NumTasks + 1
    /\ call[t].locks = 0

\* the call of t names the caller itself, as 0 or as its own pid
SelfCall(C, t) == C[t].arg \in {0, t}

\* what C6_SelfAsync requires of one step of task t
C6_SelfAsyncStep(t) ==
  /\ (pc[t] = "idle" /\ Steps(t) /\ SelfCall(call', t)) =>
        /\ pc'[t] = "assert"
        /\ pid'[t] = t /\ dtcb'[t] = t
  /\ (SawAsync(t) /\ SelfCall(call, t) /\ InCall(t)) =>
        /\ pc'[t] # "done"
        /\ call'[t].term = 0
        /\ pc[t] = "dispatch" =>
             /\ pc'[t] = "exited"
             /\ call'[t].exit = 1
             /\ tcb[t].lockcount = call[t].lock0
             /\ call[t].unlocks = call[t].locks
             /\ t \notin registry'
        /\ pc[t] # "dispatch" => pc'[t] # "exited" /\ call'[t].exit = 0

\* C6: the caller deletes itself (pid 0 or its own pid) while Enabled and
\* Asynchronous: the lookup finds the caller, the call ends in exit() and
\* never returns, task_terminate() is not called, and the scheduler lock is
\* back at its entry value when exit() is called.
C6_SelfAsync == [][\A t \in Tasks : C6_SelfAsyncStep(t)]_vars

C6_Witness ==
  \E t, u \in Tasks :
    /\ t # u
    /\ pc[t] = "exited" /\ call[t].arg = 0 /\ call[t].exit = 1 /\ call[t].term = 0
    /\ pc[u] = "exited" /\ call[u].arg = u /\ call[u].exit = 1 /\ call[u].term = 0
    /\ SawAsync(t) /\ SawAsync(u)
    /\ t \notin registry /\ u \notin registry

\* what C7_SelfNotAsync requires of one step of task t
C7_SelfNotAsyncStep(t) ==
  ((SawDisabled(t) \/ SawDeferred(t)) /\ SelfCall(call, t) /\ InCall(t)) =>
     /\ pc'[t] \in {"deferred", "done"}
     /\ call'[t].exit = 0 /\ call'[t].term = 0
     /\ t \in registry'
     /\ pc[t] = "deferred" => pc'[t] = "done"
     /\ pc'[t] = "done" =>
          /\ result'[t] = OK
          /\ Pending(tcb', t)
          /\ tcb'[t].lockcount = call[t].lock0

\* C7: the caller deletes itself (pid 0 or its own pid) while Disabled, or
\* while Enabled and Deferred: exit() is not called; the call sets the
\* caller's own cancelPending, returns OK, and the caller is still a live task.
C7_SelfNotAsync == [][\A t \in Tasks : C7_SelfNotAsyncStep(t)]_vars

C7_Witness ==
  \E t, u \in Tasks :
    /\ pc[t] = "done" /\ call[t].arg = 0 /\ call[t].path = "disabled"
    /\ pc[u] = "done" /\ call[u].arg = u /\ call[u].path = "deferred"
    /\ result[t] = OK /\ result[u] = OK
    /\ Pending(tcb, t) /\ Pending(tcb, u)
    /\ {t, u} \subseteq registry

\* what C8_Sticky requires of one step
C8_StickyStep ==
  /\ pc' # pc => \A p \in registry' : Pending(tcb, p) => Pending(tcb', p)
  /\ \A t \in Tasks :
       (Returns(t) /\ call'[t].path \in {"disabled", "deferred"} /\ dtcb[t] \in registry')
          => Pending(tcb', dtcb[t])

\* C8: no step of task_delete takes cancelPending from set to clear, and a
\* call that returns on the Disabled or Deferred path leaves it set, also
\* when it was set before the call.
C8_Sticky == [][C8_StickyStep]_vars

C8_Witness ==
  \E t \in Tasks :
    /\ pc[t] = "done" /\ call[t].path \in {"disabled", "deferred"}
    /\ SawLive(t) /\ TCB_FLAG_CANCEL_PENDING \in Snap(t).flags
    /\ dtcb[t] \in registry /\ Pending(tcb, dtcb[t])

\* C9: a call reaches the terminal dispatch only after it saw, under the
\* lock, a live target that was Enabled and Asynchronous, and it calls
\* task_terminate() at most once; nothing more is guaranteed per target: two
\* concurrent calls may both have called task_terminate() on the same task.
C9_OnePerCall ==
  \A t \in Tasks :
    /\ call[t].term <= 1
    /\ pc[t] \in {"dispatch", "exited"} => call[t].term = 0
    /\ (pc[t] \in {"unlock", "dispatch"} \/ call[t].term = 1) =>
          /\ Snap(t).taken
          /\ Snap(t).alive => SawAsync(t)
    /\ (pc[t] = "done" /\ call[t].path \in {"terminated", "termfail"}) <=> call[t].term = 1

C9_Witness ==
  \E t, u \in Tasks :
    /\ t # u /\ pid[t] = pid[u] /\ pid[t] \notin {t, u}
    /\ pc[t] = "done" /\ pc[u] = "done"
    /\ call[t].term = 1 /\ call[u].term = 1
    /\ SawAsync(t) /\ SawAsync(u)

\* a step in which the call of t reads or writes the tcb of its target:
\* the type test of line 153, the flag tests and the pending writes of lines
\* 161-191, the cpcount read of line 193
TouchesTarget(t) == pc[t] \in {"assert", "noncancelable", "deferred"} /\ Steps(t)

\* C13: every read and write task_delete makes of the target's tcb (task
\* type, cancelability, cancel type, pending bit, cpcount) is made while the
\* caller holds the scheduler lock, the type test of line 153 included.
C13_UnderLock ==
  [][\A t \in Tasks : TouchesTarget(t) => tcb[t].lockcount > 0]_vars

\* the same without the type test: the flag tests, the pending write and
\* the cpcount read
C13_FlagsUnderLock ==
  [][\A t \in Tasks :
       (pc[t] \in {"noncancelable", "deferred"} /\ Steps(t)) => tcb[t].lockcount > 0]_vars

\* what C14_UnlockedDispatch requires of one step of task t
C14_UnlockedDispatchStep(t) ==
  /\ (call'[t].term > call[t].term \/ call'[t].exit > call[t].exit) =>
        /\ pc[t] = "dispatch"
        /\ call[t].locks = 1 /\ call[t].unlocks = 1
        /\ tcb[t].lockcount = call[t].lock0
  /\ (pc[t] = "dispatch" /\ Steps(t)) =>
        (call'[t].term = 1 \/ call'[t].exit = 1)

\* C14: task_terminate() and exit() are called only after the call gave
\* back the scheduler lock it took for the decision: the lock count is at its
\* entry value when the terminal dispatch is made.
C14_UnlockedDispatch == [][\A t \in Tasks : C14_UnlockedDispatchStep(t)]_vars

C14_Witness ==
  \E t \in Tasks :
    /\ pc[t] = "done" /\ call[t].path = "terminated"
    /\ call[t].lock0 = 1 /\ tcb[t].lockcount = 1
    /\ call[t].locks = 1 /\ call[t].unlocks = 1
    /\ call[t].term = 1

\* C15: whenever notify_cancellation() is called on a task, the caller holds
\* the scheduler lock, the task's cpcount is greater than 0 at that instant
\* and is the one found when the lock was taken, and its pending bit is
\* already set.
C15_NotifyAtomic ==
  \A t \in Tasks :
    (call[t].notify > 0 /\ call[t].seen.live) =>
       /\ call[t].seen.locked
       /\ call[t].seen.cpcount > 0
       /\ call[t].seen.pending
       /\ SawLive(t) /\ Snap(t).cpcount = call[t].seen.cpcount

\* the target was blocked when notified, was not pending before, and has
\* left its cancellation point since
C15_Witness ==
  \E t \in Tasks :
    /\ pc[t] = "done" /\ call[t].notify = 1
    /\ call[t].seen.live /\ call[t].seen.cpcount > 0 /\ call[t].seen.pending
    /\ TCB_FLAG_CANCEL_PENDING \notin Snap(t).flags
    /\ dtcb[t] # t /\ dtcb[t] \in registry
    /\ tcb[dtcb[t]].cpcount = 0

\* C16: a task that task_delete tears down through task_terminate() is, at
\* that instant, Enabled and Asynchronous: the decision taken under the lock
\* is still valid when the terminal dispatch is made.
C16_StillAsync ==
  [][\A t \in Tasks :
       (/\ pc[t] = "dispatch" /\ call'[t].term = call[t].term + 1
        /\ pid[t] \in registry /\ pid[t] \notin registry') =>
          /\ TCB_FLAG_NONCANCELABLE \notin tcb[pid[t]].flags
          /\ TCB_FLAG_CANCEL_DEFERRED \notin tcb[pid[t]].flags]_vars

\* the call of t is in its decision phase (lines 160-204)
InDecision(t) == pc[t] \in {"noncancelable", "deferred", "unlock"}

\* C17: the decision phases of the calls are serialized by the scheduler
\* lock: while a call is in its decision phase it holds the lock, no other
\* call is in its decision phase, and the target's flags and cpcount stay as
\* they were when the lock was taken; the branch a call takes and its
\* notification are those of that one combination.
C17_Serialized ==
  \A t \in Tasks :
    /\ InDecision(t) =>
         /\ tcb[t].lockcount > 0
         /\ \A u \in Tasks \ {t} : ~InDecision(u)
         /\ SawLive(t) =>
              /\ dtcb[t] \in registry
              /\ tcb[dtcb[t]].flags = Snap(t).flags
              /\ tcb[dtcb[t]].cpcount = Snap(t).cpcount
    /\ (SawLive(t) /\ pc[t] \in {"unlock", "dispatch", "exited"}) => SawAsync(t)
    /\ (SawLive(t) /\ pc[t] = "done") =>
         /\ call[t].path = "disabled" <=> SawDisabled(t)
         /\ call[t].path = "deferred" <=> SawDeferred(t)
         /\ call[t].path \in {"terminated", "termfail"} <=> SawAsync(t)
         /\ call[t].notify = IF SawDeferred(t) /\ Snap(t).cpcount > 0 THEN 1 ELSE 0

\* two calls on one task that changed its own state: one is in its decision
\* phase, the other waits before the lock
C17_Witness ==
  \E t, u \in Tasks :
    /\ t # u /\ dtcb[t] = dtcb[u] /\ dtcb[t] \in registry \ {t, u}
    /\ pc[u] = "deferred" /\ pc[t] = "lock"
    /\ SawDeferred(u) /\ Snap(u).cpcount > 0
    /\ tcb[dtcb[t]].cpcount > 0

\* C18: the tcb found by sched_gettcb() is still that of a live task when
\* the call reads its type and flags, sets its pending bit, reads its cpcount
\* or notifies it.
C18_TargetLive ==
  \A t \in Tasks :
    pc[t] \in {"assert", "noncancelable", "deferred"} => dtcb[t] \in registry

\* C19: the scheduler lock is balanced: outside the decision phase the lock
\* count of the caller is its value at entry, also at a return and when
\* exit() is called; inside it is one more; the call takes the lock at most
\* once and gives back only what it took.
C19_LockBalanced ==
  \A t \in Tasks :
    /\ pc[t] \in {"assert", "lock", "dispatch", "done"} =>
         tcb[t].lockcount = call[t].lock0
    /\ InDecision(t) => tcb[t].lockcount = call[t].lock0 + 1
    /\ call[t].locks <= 1 /\ call[t].unlocks <= call[t].locks
    /\ pc[t] \in {"dispatch", "done", "exited"} => call[t].unlocks = call[t].locks
    /\ (pc[t] = "done" /\ call[t].path = "notfound") => call[t].locks = 0

C19_Witness ==
  \E t \in Tasks :
    /\ pc[t] = "done" /\ call[t].path = "deferred" /\ call[t].notify = 1
    /\ call[t].lock0 = 1 /\ tcb[t].lockcount = 1
    /\ call[t].locks = 1 /\ call[t].unlocks = 1

\* ---------------------------------------------------------------- writev
RECURSIVE SumLens(_, _)
SumLens(v, n) == IF n = 0 THEN 0 ELSE SumLens(v, n - 1) + v[n].iov_len

\* the areas with C index in lo..hi are all empty
EmptyAreas(lo, hi) == \A k \in lo..hi : iov[k + 1].iov_len = 0

\* The bytes write() took so far are a prefix of area 0, area 1, ... in index
\* order: each call starts where the previous one ended, and moves to a later
\* area only when the earlier one is complete.
LogInOrder ==
  \A j \in 1..Len(wlog) :
    LET e == wlog[j]
    IN /\ e[1] \in 0..(iovcnt - 1)
       /\ e[3] >= 0 /\ e[2] + e[3] <= iov[e[1] + 1].iov_len
       /\ IF j = 1
          THEN e[2] = 0 /\ EmptyAreas(0, e[1] - 1)
          ELSE LET b == wlog[j - 1]
               IN \/ e[1] = b[1] /\ e[2] = b[2] + b[3]
                  \/ /\ e[1] > b[1] /\ e[2] = 0
                     /\ b[2] + b[3] = iov[b[1] + 1].iov_len
                     /\ EmptyAreas(b[1] + 1, e[1] - 1)

\* every area was handed to write() completely
LogComplete ==
  IF wlog = <<>> THEN EmptyAreas(0, iovcnt - 1)
  ELSE LET b == wlog[Len(wlog)]
       IN /\ b[2] + b[3] = iov[b[1] + 1].iov_len
          /\ EmptyAreas(b[1] + 1, iovcnt - 1)

\* writev returned and no write() call (nor the lseek() at entry) failed
WritevSucceeded == wpc = "done" /\ pos # -1 /\ ~wfailed

\* C10: when no write() call fails, writev returns the sum of the iov_len
\* values, write() took the areas in index order, each completely before the
\* next, and a vector of empty areas makes no write() call, returns 0 and
\* leaves the file position unchanged.
C10_ReturnsSum ==
  /\ LogInOrder
  /\ wpc = "write" => iov[i + 1].iov_len > 0
  /\ WritevSucceeded =>
       /\ wret = SumLens(iov, iovcnt)
       /\ LogComplete
       /\ EmptyAreas(0, iovcnt - 1) => (wret = 0 /\ nwrites = 0 /\ filepos = pos)

\* the same, for vectors whose sum fits ssize_t
C10_ReturnsSumInRange ==
  /\ LogInOrder
  /\ wpc = "write" => iov[i + 1].iov_len > 0
  /\ (WritevSucceeded /\ SumLens(iov, iovcnt) <= SSIZE_MAX) =>
       /\ wret = SumLens(iov, iovcnt)
       /\ LogComplete
       /\ EmptyAreas(0, iovcnt - 1) => (wret = 0 /\ nwrites = 0 /\ filepos = pos)

C12_SumTooLarge ==
  SumLens(iov, iovcnt) > SSIZE_MAX =>
     /\ nwrites = 0
     /\ ~overflowed
     /\ wpc = "done" => wret = ERROR

\* C20: every write() call of the inner loop makes progress: it ends the
\* call with an error or leaves fewer bytes of the area to write, so that
\* writev returns after finitely many write() calls.
C20_Progress ==
  [][(wpc = "write" /\ nwrites' = nwrites + 1) =>
        (wpc' = "done" \/ remaining' < remaining)]_vars

====
